---- MODULE Spec2Model ----
(***************************************************************************)
(* Model of kubectl_mcp_tool/utils/ssh_wrapper.py: the SSHCommandWrapper   *)
(* class (configuration from the environment, wrap_command,                *)
(* wrap_shell_command, get_connection_info) and the module-level singleton *)
(* (get_ssh_wrapper, reset_ssh_wrapper).                                   *)
(*                                                                         *)
(* A Python str is a sequence of one-character strings, so that quoting,   *)
(* joining, lower-casing and shell word splitting are computed character   *)
(* by character.  Python objects carry a "type" field; None is the object  *)
(* of type NoneType.                                                       *)
(***************************************************************************)
EXTENDS Integers, Sequences, FiniteSets, TLC

VARIABLES
    env,        \* os.environ: a function from the names that are set to their values
    fs,         \* the local paths for which os.path.exists is true
    self,       \* the SSHCommandWrapper under test (None before construction)
    call,       \* the last call made: [op, arg]
    result,     \* what the last call returned (None when it raised)
    raised,     \* the exception the last call raised (None when it returned)
    logged,     \* the log records the last call emitted, in order
    instance,   \* the module global _ssh_wrapper_instance
    nextId,     \* identity given to the next constructed object
    pc,         \* per thread: the line of get_ssh_wrapper it is about to run
    local,      \* per thread: the object built at line 191, not yet stored
    ret         \* per thread: what its last get_ssh_wrapper() returned

vars == <<env, fs, self, call, result, raised, logged, instance, nextId, pc, local, ret>>

-----------------------------------------------------------------------------
(* Bounds *)

MaxArgLen == 1      \* longest generated command argument, in characters
MaxArgs == 2        \* longest generated argument list
MaxInst == 3        \* how many wrapper objects a run may construct
NumThreads == 2     \* threads calling the singleton accessors

-----------------------------------------------------------------------------
(* Python values *)

None == [type |-> "NoneType"]

(* a str held where None may be held instead (a dict value) *)
PyStr(s) == [type |-> "str", val |-> s]

ValueError(name) == [type |-> "ValueError", names |-> name]

LogRecord(level, msg) == [level |-> level, msg |-> msg]

(* str + str, and ' '.join(parts) *)
RECURSIVE Join(_, _)
Join(sep, parts) ==
    IF parts = <<>> THEN <<>>
    ELSE IF Len(parts) = 1 THEN parts[1]
    ELSE parts[1] \o sep \o Join(sep, Tail(parts))

SP == <<" ">>

UPPER == <<"A", "B", "C", "D", "E", "F", "G", "H", "I", "J", "K", "L", "M",
           "N", "O", "P", "Q", "R", "S", "T", "U", "V", "W", "X", "Y", "Z">>
LOWER == <<"a", "b", "c", "d", "e", "f", "g", "h", "i", "j", "k", "l", "m",
           "n", "o", "p", "q", "r", "s", "t", "u", "v", "w", "x", "y", "z">>
DIGITS == <<"0", "1", "2", "3", "4", "5", "6", "7", "8", "9">>

Range(f) == {f[i] : i \in DOMAIN f}

(* str.lower() *)
LowerChar(c) ==
    IF \E i \in DOMAIN UPPER : UPPER[i] = c
    THEN LOWER[CHOOSE i \in DOMAIN UPPER : UPPER[i] = c]
    ELSE c

Lower(s) == [i \in DOMAIN s |-> LowerChar(s[i])]

(* os.environ.get(key, default) *)
EnvGet(e, key, default) == IF key \in DOMAIN e THEN e[key] ELSE default

-----------------------------------------------------------------------------
(* shlex.quote, as called at lines 108, 146 and 152 *)

(* the characters matched by \w@%+=:,./- under re.ASCII *)
SafeChars ==
    Range(UPPER) \cup Range(LOWER) \cup Range(DIGITS)
        \cup {"_", "@", "%", "+", "=", ":", ",", ".", "/", "-"}

(* s.replace("'", "'\"'\"'") *)
RECURSIVE ReplaceQuote(_)
ReplaceQuote(s) ==
    IF s = <<>> THEN <<>>
    ELSE (IF Head(s) = "'" THEN <<"'", "\"", "'", "\"", "'">> ELSE <<Head(s)>>)
             \o ReplaceQuote(Tail(s))

ShlexQuote(s) ==
    IF s = <<>> THEN <<"'", "'">>
    ELSE IF \A i \in DOMAIN s : s[i] \in SafeChars THEN s
    ELSE <<"'">> \o ReplaceQuote(s) \o <<"'">>

-----------------------------------------------------------------------------
(* os.path.expanduser, as called at lines 61, 93 and 145 *)

(* the pwd database of the host: login name and home directory; getpwnam
   raises KeyError for a name that is not in it *)
PwDb == {[pw_name |-> <<"u">>, pw_dir |-> <<"/", "u">>]}
PwKnown(name) == \E ent \in PwDb : ent.pw_name = name
PwDir(name) == (CHOOSE ent \in PwDb : ent.pw_name = name).pw_dir
(* pwd.getpwuid(os.getuid()).pw_dir, used when HOME is not set *)
PwSelf == <<"/", "r">>

(* index of the first "/" at or after position i, Len(s)+1 when there is none *)
RECURSIVE FindSlash(_, _)
FindSlash(s, i) ==
    IF i > Len(s) THEN Len(s) + 1
    ELSE IF s[i] = "/" THEN i
    ELSE FindSlash(s, i + 1)

(* userhome.rstrip('/') *)
RECURSIVE RStripSlash(_)
RStripSlash(s) ==
    IF s # <<>> /\ s[Len(s)] = "/" THEN RStripSlash(SubSeq(s, 1, Len(s) - 1))
    ELSE s

ExpandUser(e, path) ==
    IF path = <<>> \/ path[1] # "~" THEN path
    ELSE
        LET i == FindSlash(path, 2)
            rest == SubSeq(path, i, Len(path))
            name == SubSeq(path, 2, i - 1)
            userhome == IF i = 2 THEN EnvGet(e, "HOME", PwSelf) ELSE PwDir(name)
        IN  IF i # 2 /\ ~PwKnown(name) THEN path
            ELSE IF RStripSlash(userhome) \o rest = <<>> THEN <<"/">>
            ELSE RStripSlash(userhome) \o rest

-----------------------------------------------------------------------------
(* class SSHCommandWrapper *)

TRUTHY == {<<"t", "r", "u", "e">>, <<"1">>, <<"y", "e", "s">>}
FALSE_STR == <<"f", "a", "l", "s", "e">>
PORT_22 == <<"2", "2">>

SSH == <<"s", "s", "h">>
OPT_P == <<"-", "p">>
OPT_I == <<"-", "i">>
OPT_O == <<"-", "o">>
STRICT_NO == <<"S", "t", "r", "i", "c", "t", "H", "o", "s", "t", "K", "e", "y",
               "C", "h", "e", "c", "k", "i", "n", "g", "=", "n", "o">>
KNOWN_HOSTS_NULL == <<"U", "s", "e", "r", "K", "n", "o", "w", "n", "H", "o", "s",
                      "t", "s", "F", "i", "l", "e", "=", "/", "d", "e", "v", "/",
                      "n", "u", "l", "l">>
LOGLEVEL_ERROR == <<"L", "o", "g", "L", "e", "v", "e", "l", "=", "E", "R", "R",
                    "O", "R">>

(* _validate_config with the host checked before the user *)
ValidateConfig_HostFirst(obj, e, f) ==
    IF obj.ssh_host = <<>> THEN
        [raised |-> ValueError("KUBECTL_SSH_HOST"), logged |-> <<>>]
    ELSE IF obj.ssh_user = <<>> THEN
        [raised |-> ValueError("KUBECTL_SSH_USER"), logged |-> <<>>]
    ELSE IF obj.ssh_key # <<>> /\ ExpandUser(e, obj.ssh_key) \notin f THEN
        [raised |-> None,
         logged |-> <<LogRecord("warning", "SSH key file not found")>>]
    ELSE
        [raised |-> None, logged |-> <<>>]

(* _validate_config testing the key path as given, without expanduser *)
ValidateConfig_NoExpand(obj, e, f) ==
    IF obj.ssh_user = <<>> THEN
        [raised |-> ValueError("KUBECTL_SSH_USER"), logged |-> <<>>]
    ELSE IF obj.ssh_host = <<>> THEN
        [raised |-> ValueError("KUBECTL_SSH_HOST"), logged |-> <<>>]
    ELSE IF obj.ssh_key # <<>> /\ obj.ssh_key \notin f THEN
        [raised |-> None,
         logged |-> <<LogRecord("warning", "SSH key file not found")>>]
    ELSE
        [raised |-> None, logged |-> <<>>]

(* _validate_config: the exception it raises (None when it returns) and what
   it logs.  f is the set of existing paths, e the environment. *)
ValidateConfig(obj, e, f) ==
    IF obj.ssh_user = <<>> THEN
        [raised |-> ValueError("KUBECTL_SSH_USER"), logged |-> <<>>]
    ELSE IF obj.ssh_host = <<>> THEN
        [raised |-> ValueError("KUBECTL_SSH_HOST"), logged |-> <<>>]
    ELSE IF obj.ssh_key # <<>> /\ ExpandUser(e, obj.ssh_key) \notin f THEN
        [raised |-> None,
         logged |-> <<LogRecord("warning", "SSH key file not found")>>]
    ELSE
        [raised |-> None, logged |-> <<>>]

(* the attribute assignments of __init__, lines 31-35; id is the identity of
   the object being initialised *)
InitFields(e, id) ==
    [type |-> "SSHCommandWrapper",
     id |-> id,
     ssh_enabled |-> Lower(EnvGet(e, "KUBECTL_SSH_ENABLED", FALSE_STR)) \in TRUTHY,
     ssh_user |-> EnvGet(e, "KUBECTL_SSH_USER", <<>>),
     ssh_host |-> EnvGet(e, "KUBECTL_SSH_HOST", <<>>),
     ssh_port |-> EnvGet(e, "KUBECTL_SSH_PORT", PORT_22),
     ssh_key |-> EnvGet(e, "KUBECTL_SSH_KEY", <<>>)]

(* SSHCommandWrapper(): the object (None when __init__ raised), the
   exception, and the log records emitted *)
SSHCommandWrapper(e, f, id) ==
    LET obj == InitFields(e, id)
        v == ValidateConfig(obj, e, f)
    IN  IF obj.ssh_enabled THEN
            IF v.raised # None THEN
                [obj |-> None, raised |-> v.raised, logged |-> v.logged]
            ELSE
                [obj |-> obj, raised |-> None,
                 logged |-> v.logged \o <<LogRecord("info", "SSH mode enabled")>>]
        ELSE
            [obj |-> obj, raised |-> None,
             logged |-> <<LogRecord("debug", "SSH mode disabled")>>]

(* lines 87-89: the port pair *)
PortArgs_AnyPort(obj) ==
    IF obj.ssh_port # <<>> THEN <<OPT_P, obj.ssh_port>> ELSE <<>>

PortArgs(obj) ==
    IF obj.ssh_port # <<>> /\ obj.ssh_port # PORT_22
    THEN <<OPT_P, obj.ssh_port>> ELSE <<>>

(* lines 91-94: the key pair *)
KeyArgs(obj, e) ==
    IF obj.ssh_key # <<>> THEN <<OPT_I, ExpandUser(e, obj.ssh_key)>> ELSE <<>>

(* lines 96-101 *)
OptionArgs == <<OPT_O, STRICT_NO, OPT_O, KNOWN_HOSTS_NULL, OPT_O, LOGLEVEL_ERROR>>

(* line 104 *)
Destination(obj) == obj.ssh_user \o <<"@">> \o obj.ssh_host

(* line 108 with the arguments joined as they are *)
RemoteCommand_Unquoted(cmd) == Join(SP, cmd)

(* line 108 *)
RemoteCommand(cmd) == Join(SP, [i \in DOMAIN cmd |-> ShlexQuote(cmd[i])])

(* wrap_command without the local-mode return of lines 81-82 *)
WrapCommandOf_NoLocalMode(obj, e, cmd) ==
    <<SSH>> \o PortArgs(obj) \o KeyArgs(obj, e) \o OptionArgs
        \o <<Destination(obj)>> \o <<RemoteCommand(cmd)>>

(* wrap_command with the key pair put before the port pair *)
WrapCommandOf_KeyFirst(obj, e, cmd) ==
    IF ~obj.ssh_enabled THEN cmd
    ELSE
        <<SSH>> \o KeyArgs(obj, e) \o PortArgs(obj) \o OptionArgs
            \o <<Destination(obj)>> \o <<RemoteCommand(cmd)>>

(* wrap_command(cmd) *)
WrapCommandOf(obj, e, cmd) ==
    IF ~obj.ssh_enabled THEN cmd
    ELSE
        <<SSH>> \o PortArgs(obj) \o KeyArgs(obj, e) \o OptionArgs
            \o <<Destination(obj)>> \o <<RemoteCommand(cmd)>>

(* wrap_shell_command(cmd) *)
WrapShellCommandOf(obj, e, cmd) ==
    IF ~obj.ssh_enabled THEN cmd
    ELSE
        LET prefix0 == SSH
            prefix1 == IF obj.ssh_port # <<>> /\ obj.ssh_port # PORT_22
                       THEN prefix0 \o SP \o OPT_P \o SP \o obj.ssh_port
                       ELSE prefix0
            prefix2 == IF obj.ssh_key # <<>>
                       THEN prefix1 \o SP \o OPT_I \o SP
                                \o ShlexQuote(ExpandUser(e, obj.ssh_key))
                       ELSE prefix1
            prefix3 == prefix2 \o SP \o OPT_O \o SP \o STRICT_NO
                               \o SP \o OPT_O \o SP \o KNOWN_HOSTS_NULL
                               \o SP \o OPT_O \o SP \o LOGLEVEL_ERROR
        IN  prefix3 \o SP \o obj.ssh_user \o <<"@">> \o obj.ssh_host
                    \o SP \o ShlexQuote(cmd)

(* get_connection_info() returning the key path also when disabled *)
GetConnectionInfoOf_KeyLeaks(obj) ==
    [enabled |-> obj.ssh_enabled,
     user |-> IF obj.ssh_enabled THEN PyStr(obj.ssh_user) ELSE None,
     host |-> IF obj.ssh_enabled THEN PyStr(obj.ssh_host) ELSE None,
     port |-> IF obj.ssh_enabled THEN PyStr(obj.ssh_port) ELSE None,
     key |-> PyStr(obj.ssh_key)]

(* get_connection_info() *)
GetConnectionInfoOf(obj) ==
    [enabled |-> obj.ssh_enabled,
     user |-> IF obj.ssh_enabled THEN PyStr(obj.ssh_user) ELSE None,
     host |-> IF obj.ssh_enabled THEN PyStr(obj.ssh_host) ELSE None,
     port |-> IF obj.ssh_enabled THEN PyStr(obj.ssh_port) ELSE None,
     key |-> IF obj.ssh_enabled THEN PyStr(obj.ssh_key) ELSE None]

-----------------------------------------------------------------------------
(* The remote side: the shell that ssh hands the final argument to splits it
   into words (token recognition and quote removal of the POSIX shell, which
   is also what shlex.split computes).  ok is FALSE when the line is not a
   plain list of words: an unterminated quote or escape, or an unquoted character that
   the shell treats as an operator or an expansion.  The backquote is not
   among the characters of the model. *)

BLANKS == {" ", "\t"}

(* scanner state: mode is "n" outside quotes, "s" inside '...', "d" inside
   "...", "e" after an unquoted backslash, "de" after a backslash inside
   "..."; cur is the word being built, open whether a word has begun *)
ShellStart == [ok |-> TRUE, mode |-> "n", cur |-> <<>>, open |-> FALSE, words |-> <<>>]

ShellAdd(st, chars, mode) ==
    [st EXCEPT !.cur = st.cur \o chars, !.open = TRUE, !.mode = mode]

ShellStep(st, c) ==
    CASE st.mode = "s" ->
            IF c = "'" THEN [st EXCEPT !.mode = "n"] ELSE ShellAdd(st, <<c>>, "s")
      [] st.mode = "e" -> ShellAdd(st, <<c>>, "n")
      [] st.mode = "de" ->
            IF c \in {"\\", "\"", "$"} THEN ShellAdd(st, <<c>>, "d")
            ELSE ShellAdd(st, <<"\\", c>>, "d")
      [] st.mode = "d" ->
            IF c = "\"" THEN [st EXCEPT !.mode = "n"]
            ELSE IF c = "\\" THEN [st EXCEPT !.mode = "de"]
            ELSE IF c = "$" THEN [st EXCEPT !.ok = FALSE]
            ELSE ShellAdd(st, <<c>>, "d")
      [] st.mode = "n" ->
            IF c \in BLANKS THEN
                [st EXCEPT !.words = IF st.open THEN Append(st.words, st.cur)
                                     ELSE st.words,
                           !.cur = <<>>, !.open = FALSE]
            ELSE IF c = "'" THEN ShellAdd(st, <<>>, "s")
            ELSE IF c = "\"" THEN ShellAdd(st, <<>>, "d")
            ELSE IF c = "\\" THEN ShellAdd(st, <<>>, "e")
            ELSE IF c \in SafeChars THEN ShellAdd(st, <<c>>, "n")
            ELSE [st EXCEPT !.ok = FALSE]

(* the scanner run over s[lo..hi], by halves *)
RECURSIVE ShellScan(_, _, _, _)
ShellScan(st, s, lo, hi) ==
    IF lo > hi THEN st
    ELSE IF lo = hi THEN ShellStep(st, s[lo])
    ELSE LET mid == (lo + hi) \div 2
             left == ShellScan(st, s, lo, mid)
         IN  IF left.ok THEN ShellScan(left, s, mid + 1, hi) ELSE left

ShellSplit(s) ==
    LET end == ShellScan(ShellStart, s, 1, Len(s))
    IN  IF end.ok /\ end.mode = "n"
        THEN [ok |-> TRUE,
              words |-> IF end.open THEN Append(end.words, end.cur) ELSE end.words]
        ELSE [ok |-> FALSE, words |-> <<>>]

-----------------------------------------------------------------------------
(* Inputs *)

(* [name -> <<>> (not set) or <<value>>] to the environment it describes *)
MkEnv(choice) ==
    [k \in {n \in DOMAIN choice : choice[n] # <<>>} |-> choice[k][1]]

Opt(values) == {<<>>} \cup {<<v>> : v \in values}

FlagValues ==
    {<<>>, <<"t", "r", "u", "e">>, <<"T", "r", "u", "e">>, <<"T", "R", "U", "E">>,
     <<"1">>, <<"y", "e", "s">>, <<"Y", "e", "s">>, <<"f", "a", "l", "s", "e">>,
     <<"0">>, <<"o", "n">>, <<"t", "r", "u", "e", " ">>}
UserValues == {<<>>, <<"a">>}
HostValues == {<<>>, <<"h">>}
PortValues ==
    {<<>>, <<"2", "2">>, <<"0", "2", "2">>, <<"2", "2", "2", "2">>, <<"2", "2", " ">>}
KeyValues ==
    {<<>>, <<"/", "k">>, <<"~", "/", "k">>, <<"~">>, <<"~", "x", "/", "k">>,
     <<"a", " ", "b">>}
HomeValues == {<<"/", "h">>}

Envs ==
    {MkEnv(c) : c \in [KUBECTL_SSH_ENABLED : Opt(FlagValues),
                       KUBECTL_SSH_USER : Opt(UserValues),
                       KUBECTL_SSH_HOST : Opt(HostValues),
                       KUBECTL_SSH_PORT : Opt(PortValues),
                       KUBECTL_SSH_KEY : Opt(KeyValues),
                       HOME : Opt(HomeValues)]}

(* which key files exist locally *)
FileSystems == {{}, {<<"/", "k">>, <<"/", "h", "/", "k">>, <<"/", "r">>}}

KUBECTL == <<"k", "u", "b", "e", "c", "t", "l">>
GET == <<"g", "e", "t">>
PODS == <<"p", "o", "d", "s">>

SampleCmds ==
    {<<>>, <<KUBECTL, GET, PODS>>, <<<<"l", "s">>>>, <<OPT_P>>,
     <<KUBECTL, <<>>, <<"i", "t", "'", "s">>, <<"a", " ", "b">>>>}

SampleShellCmds ==
    {<<>>, <<"l", "s">>, <<"a", " ", "|", " ", "b">>, <<"e", " ", "'", "x", "'">>}

ArgAlphabet == {"a", " ", "'", "\"", "\\"}

SampleArgs ==
    {<<"i", "t", "'", "s">>, <<"$", "x">>, <<"a", ";", "b">>, <<"'", "a", " ", "'">>,
     <<"k", "=", "v">>}

Args == UNION {[1..n -> ArgAlphabet] : n \in 0..MaxArgLen} \cup SampleArgs

Cmds == UNION {[1..n -> Args] : n \in 0..MaxArgs}

Threads == 1..NumThreads

-----------------------------------------------------------------------------
(* A wrapper object constructed directly and its methods called *)

NoCall == [op |-> "none", arg |-> None]

(* what ret holds for a thread that has not returned from get_ssh_wrapper *)
Nothing == [type |-> "nothing"]

Idle ==
    /\ instance = None
    /\ nextId = 1
    /\ pc = [t \in Threads |-> "idle"]
    /\ local = [t \in Threads |-> None]
    /\ ret = [t \in Threads |-> Nothing]

Fresh ==
    /\ self = None
    /\ call = NoCall
    /\ result = None
    /\ raised = None
    /\ logged = <<>>

Init ==
    /\ env \in Envs
    /\ fs \in FileSystems
    /\ Fresh
    /\ Idle

(* self = SSHCommandWrapper() *)
Construct ==
    /\ self = None
    /\ raised = None
    /\ LET r == SSHCommandWrapper(env, fs, nextId)
       IN  /\ self' = r.obj
           /\ raised' = r.raised
           /\ logged' = r.logged
    /\ call' = [op |-> "__init__", arg |-> None]
    /\ result' = None
    /\ UNCHANGED <<env, fs, instance, nextId, pc, local, ret>>

WrapCommand(cmd) ==
    /\ self # None
    /\ call' = [op |-> "wrap_command", arg |-> cmd]
    /\ result' = WrapCommandOf(self, env, cmd)
    /\ raised' = None
    /\ logged' = IF self.ssh_enabled
                 THEN <<LogRecord("debug", "Wrapped command")>> ELSE <<>>
    /\ UNCHANGED <<env, fs, self, instance, nextId, pc, local, ret>>

WrapShellCommand(cmd) ==
    /\ self # None
    /\ call' = [op |-> "wrap_shell_command", arg |-> cmd]
    /\ result' = WrapShellCommandOf(self, env, cmd)
    /\ raised' = None
    /\ logged' = IF self.ssh_enabled
                 THEN <<LogRecord("debug", "Wrapped shell command")>> ELSE <<>>
    /\ UNCHANGED <<env, fs, self, instance, nextId, pc, local, ret>>

GetConnectionInfo ==
    /\ self # None
    /\ call' = [op |-> "get_connection_info", arg |-> None]
    /\ result' = GetConnectionInfoOf(self)
    /\ raised' = None
    /\ logged' = <<>>
    /\ UNCHANGED <<env, fs, self, instance, nextId, pc, local, ret>>

Next ==
    \/ Construct
    \/ \E cmd \in SampleCmds : WrapCommand(cmd)
    \/ \E cmd \in SampleShellCmds : WrapShellCommand(cmd)
    \/ GetConnectionInfo

Spec == Init /\ [][Next]_vars

(* The same object, with generated argument lists *)

EnvsCmd ==
    {[KUBECTL_SSH_ENABLED |-> <<"t", "r", "u", "e">>,
      KUBECTL_SSH_USER |-> <<"a">>, KUBECTL_SSH_HOST |-> <<"h">>],
     [KUBECTL_SSH_ENABLED |-> <<"1">>,
      KUBECTL_SSH_USER |-> <<"a">>, KUBECTL_SSH_HOST |-> <<"h">>,
      KUBECTL_SSH_PORT |-> <<"2", "2", "2", "2">>,
      KUBECTL_SSH_KEY |-> <<"~", "/", "k">>, HOME |-> <<"/", "h">>]}

InitCmd ==
    /\ env \in EnvsCmd
    /\ fs = {}
    /\ Fresh
    /\ Idle

(* No method assigns an attribute (lines 64-175), so a call's result depends
   only on the object and the argument: each behaviour constructs the object
   and makes one call on it. *)
NextCmd ==
    \/ Construct
    \/ call.op = "__init__" /\ \E cmd \in Cmds : WrapCommand(cmd)
    \/ call.op = "__init__" /\ \E cmd \in Args : WrapShellCommand(cmd)

SpecCmd == InitCmd /\ [][NextCmd]_vars

-----------------------------------------------------------------------------
(* The module singleton, used from one thread while the environment changes *)

EnvsSingle ==
    {MkEnv(c) : c \in [KUBECTL_SSH_ENABLED : Opt({<<"t", "r", "u", "e">>, <<"0">>}),
                       KUBECTL_SSH_USER : Opt({<<"a">>, <<"b">>}),
                       KUBECTL_SSH_HOST : Opt({<<"h">>}),
                       KUBECTL_SSH_PORT : Opt({<<"2", "2", "2", "2">>})]}

InitSingle ==
    /\ env \in EnvsSingle
    /\ fs = {}
    /\ Fresh
    /\ Idle

(* the environment is changed from outside the module: one variable is set
   or deleted *)
ChangeEnv ==
    /\ \E e \in EnvsSingle :
        /\ e # env
        /\ Cardinality({k \in DOMAIN e \cup DOMAIN env :
                            EnvGet(e, k, <<"?">>) # EnvGet(env, k, <<"?">>)}) = 1
        /\ env' = e
    /\ UNCHANGED <<fs, self, call, result, raised, logged, instance, nextId, pc, local, ret>>

(* get_ssh_wrapper() constructing on every call *)
GetSSHWrapper_NoCache ==
    /\ nextId <= MaxInst
    /\ LET r == SSHCommandWrapper(env, fs, nextId)
       IN  /\ instance' = r.obj
           /\ nextId' = IF r.raised = None THEN nextId + 1 ELSE nextId
           /\ result' = r.obj
           /\ raised' = r.raised
           /\ logged' = r.logged
    /\ call' = [op |-> "get_ssh_wrapper", arg |-> None]
    /\ UNCHANGED <<env, fs, self, pc, local, ret>>

(* get_ssh_wrapper() run without interruption.  When __init__ raises, line
   191 assigns nothing and the exception leaves the function. *)
GetSSHWrapper ==
    /\ IF instance = None THEN
           /\ nextId <= MaxInst
           /\ LET r == SSHCommandWrapper(env, fs, nextId)
              IN  /\ instance' = r.obj
                  /\ nextId' = IF r.raised = None THEN nextId + 1 ELSE nextId
                  /\ result' = r.obj
                  /\ raised' = r.raised
                  /\ logged' = r.logged
       ELSE
           /\ result' = instance
           /\ raised' = None
           /\ logged' = <<>>
           /\ UNCHANGED <<instance, nextId>>
    /\ call' = [op |-> "get_ssh_wrapper", arg |-> None]
    /\ UNCHANGED <<env, fs, self, pc, local, ret>>

(* reset_ssh_wrapper() *)
ResetSSHWrapper ==
    /\ instance' = None
    /\ call' = [op |-> "reset_ssh_wrapper", arg |-> None]
    /\ result' = None
    /\ raised' = None
    /\ logged' = <<>>
    /\ UNCHANGED <<env, fs, self, nextId, pc, local, ret>>

NextSingle ==
    \/ ChangeEnv
    \/ GetSSHWrapper
    \/ ResetSSHWrapper

SpecSingle == InitSingle /\ [][NextSingle]_vars

-----------------------------------------------------------------------------
(* The module singleton, used from several threads.  A thread can be
   preempted between the read of the global at line 190, the call and the
   store of line 191, and the read of the global at line 192. *)

EnvsValid ==
    {[KUBECTL_SSH_ENABLED |-> <<"t", "r", "u", "e">>,
      KUBECTL_SSH_USER |-> <<"a">>, KUBECTL_SSH_HOST |-> <<"h">>],
     [KUBECTL_SSH_USER |-> <<"a">>]}

InitConc ==
    /\ env \in EnvsValid
    /\ fs = {}
    /\ Fresh
    /\ Idle

(* line 190: if _ssh_wrapper_instance is None *)
Line190(t) ==
    /\ pc[t] = "idle"
    /\ pc' = [pc EXCEPT ![t] = IF instance = None THEN "L191" ELSE "L192"]
    /\ UNCHANGED <<env, fs, self, call, result, raised, logged, instance, nextId, local, ret>>

(* line 191, right-hand side: SSHCommandWrapper() *)
Line191Call(t) ==
    /\ pc[t] = "L191"
    /\ nextId <= MaxInst
    /\ LET r == SSHCommandWrapper(env, fs, nextId)
       IN  IF r.raised = None THEN
               /\ local' = [local EXCEPT ![t] = r.obj]
               /\ nextId' = nextId + 1
               /\ pc' = [pc EXCEPT ![t] = "L191s"]
               /\ ret' = ret
           ELSE
               /\ ret' = [ret EXCEPT ![t] = r.raised]
               /\ pc' = [pc EXCEPT ![t] = "idle"]
               /\ UNCHANGED <<local, nextId>>
    /\ UNCHANGED <<env, fs, self, call, result, raised, logged, instance>>

(* line 191, assignment to the global *)
Line191Store(t) ==
    /\ pc[t] = "L191s"
    /\ instance' = local[t]
    /\ local' = [local EXCEPT ![t] = None]
    /\ pc' = [pc EXCEPT ![t] = "L192"]
    /\ UNCHANGED <<env, fs, self, call, result, raised, logged, nextId, ret>>

(* line 192: return _ssh_wrapper_instance *)
Line192(t) ==
    /\ pc[t] = "L192"
    /\ ret' = [ret EXCEPT ![t] = instance]
    /\ pc' = [pc EXCEPT ![t] = "idle"]
    /\ UNCHANGED <<env, fs, self, call, result, raised, logged, instance, nextId, local>>

(* reset_ssh_wrapper(), line 202: one store to the global *)
Line202(t) ==
    /\ pc[t] = "idle"
    /\ instance' = None
    /\ UNCHANGED <<env, fs, self, call, result, raised, logged, nextId, pc, local, ret>>

NextConc ==
    \E t \in Threads :
        \/ Line190(t)
        \/ Line191Call(t)
        \/ Line191Store(t)
        \/ Line192(t)
        \/ Line202(t)

SpecConc == InitConc /\ [][NextConc]_vars

-----------------------------------------------------------------------------
(* Vocabulary of the properties *)

(* the spellings of the enable flag, among FlagValues, that are one of
   true / 1 / yes without regard to case *)
TruthySpellings ==
    {<<"t", "r", "u", "e">>, <<"T", "r", "u", "e">>, <<"T", "R", "U", "E">>,
     <<"1">>, <<"y", "e", "s">>, <<"Y", "e", "s">>}

FlagIsTruthy ==
    "KUBECTL_SSH_ENABLED" \in DOMAIN env /\ env["KUBECTL_SSH_ENABLED"] \in TruthySpellings

CfgUser == EnvGet(env, "KUBECTL_SSH_USER", <<>>)
CfgHost == EnvGet(env, "KUBECTL_SSH_HOST", <<>>)
CfgPort == EnvGet(env, "KUBECTL_SSH_PORT", <<"2", "2">>)
CfgKey == EnvGet(env, "KUBECTL_SSH_KEY", <<>>)

HasPortFlag == CfgPort # <<>> /\ CfgPort # <<"2", "2">>
HasKeyFlag == CfgKey # <<>>

StartsWith(s, prefix) ==
    Len(s) >= Len(prefix) /\ SubSeq(s, 1, Len(prefix)) = prefix

Last(s) == s[Len(s)]

KeyWarning == LogRecord("warning", "SSH key file not found")

KeyMissing == CfgKey # <<>> /\ ExpandUser(env, CfgKey) \notin fs

(* steps of the singleton accessors, and the environments from which
   resolving raises *)
IsGet == env' = env /\ call'.op = "get_ssh_wrapper"
IsReset == env' = env /\ call'.op = "reset_ssh_wrapper"
ResolveFails == FlagIsTruthy /\ (CfgUser = <<>> \/ CfgHost = <<>>)

-----------------------------------------------------------------------------
(* C1: with remote mode disabled (the enable flag is not a spelling of
   true / 1 / yes), wrap_command returns the argument list it was given, the
   empty list included, and wrap_shell_command returns the string it was
   given, whatever user, host, port and key are set to. *)
C1_DisabledIsIdentity ==
    (self # None /\ ~FlagIsTruthy) =>
        /\ call.op = "wrap_command" => result = call.arg
        /\ call.op = "wrap_shell_command" => result = call.arg

C1_Witness ==
    /\ self # None
    /\ ~FlagIsTruthy
    /\ {"KUBECTL_SSH_ENABLED", "KUBECTL_SSH_USER", "KUBECTL_SSH_HOST",
        "KUBECTL_SSH_PORT", "KUBECTL_SSH_KEY"} \subseteq DOMAIN env
    /\ CfgUser # <<>> /\ CfgHost # <<>> /\ HasPortFlag /\ HasKeyFlag
    /\ call.op = "wrap_command"
    /\ call.arg = <<KUBECTL, GET, PODS>>
    /\ result = <<KUBECTL, GET, PODS>>

(* C2: in remote mode the final element of wrap_command(cmd) is one string
   that the remote shell splits into exactly the words of cmd: as many, with
   the same values, in the same order; for the empty list it is the empty
   string, which splits into no word. *)
C2_RemoteCommandRoundTrips ==
    (self # None /\ FlagIsTruthy /\ call.op = "wrap_command") =>
        /\ Len(result) >= 1
        /\ ShellSplit(Last(result)) = [ok |-> TRUE, words |-> call.arg]
        /\ call.arg = <<>> => Last(result) = <<>>

C2_Witness ==
    /\ self # None
    /\ FlagIsTruthy
    /\ call.op = "wrap_command"
    /\ call.arg = << <<"'", "a", " ", "'">>, <<>> >>
    /\ Last(result) = <<"'", "'", "\"", "'", "\"", "'", "a", " ", "'", "\"", "'",
                        "\"", "'", "'", " ", "'", "'">>

(* C3: in remote mode wrap_command returns ssh; then -p and the port only
   when the port is non-empty and not 22; then -i and the expanded key path
   only when a key is configured; then the three -o pairs in their order;
   then user@host; then one final element, the remote command; nothing
   else. *)
C3_ListLayout ==
    (self # None /\ FlagIsTruthy /\ call.op = "wrap_command") =>
        LET p == IF HasPortFlag THEN 2 ELSE 0
            k == IF HasKeyFlag THEN 2 ELSE 0
        IN  /\ Len(result) = 9 + p + k
            /\ result[1] = SSH
            /\ HasPortFlag => result[2] = OPT_P /\ result[3] = CfgPort
            /\ HasKeyFlag => /\ result[2 + p] = OPT_I
                             /\ result[3 + p] = ExpandUser(env, CfgKey)
            /\ SubSeq(result, 2 + p + k, 7 + p + k) =
                   <<OPT_O, STRICT_NO, OPT_O, KNOWN_HOSTS_NULL, OPT_O, LOGLEVEL_ERROR>>
            /\ result[8 + p + k] = CfgUser \o <<"@">> \o CfgHost
            /\ ShellSplit(result[9 + p + k]) = [ok |-> TRUE, words |-> call.arg]

C3_Witness ==
    /\ self # None
    /\ FlagIsTruthy
    /\ call.op = "wrap_command"
    /\ call.arg = <<KUBECTL, GET, PODS>>
    /\ result = <<SSH, OPT_P, <<"0", "2", "2">>, OPT_I, <<"/", "h", "/", "k">>,
                  OPT_O, STRICT_NO, OPT_O, KNOWN_HOSTS_NULL, OPT_O, LOGLEVEL_ERROR,
                  <<"a", "@", "h">>,
                  <<"k", "u", "b", "e", "c", "t", "l", " ", "g", "e", "t", " ",
                    "p", "o", "d", "s">> >>

(* C4: construction raises exactly when the enable flag is truthy and the
   user or the host is empty; the user is checked first; port and key never
   matter; every constructed object that is enabled has a user and a host. *)
C4_ValidationAtConstruction ==
    /\ call.op = "__init__" =>
        /\ (raised # None) <=> (FlagIsTruthy /\ (CfgUser = <<>> \/ CfgHost = <<>>))
        /\ (FlagIsTruthy /\ CfgUser = <<>>) => raised = ValueError("KUBECTL_SSH_USER")
        /\ (FlagIsTruthy /\ CfgUser # <<>> /\ CfgHost = <<>>) =>
               raised = ValueError("KUBECTL_SSH_HOST")
        /\ (raised # None) <=> (self = None)
    /\ self # None =>
        /\ self.ssh_enabled <=> FlagIsTruthy
        /\ self.ssh_enabled => (self.ssh_user # <<>> /\ self.ssh_host # <<>>)

C4_Witness ==
    /\ call.op = "__init__"
    /\ FlagIsTruthy
    /\ CfgUser = <<>> /\ CfgHost = <<>>
    /\ HasPortFlag /\ HasKeyFlag
    /\ raised = ValueError("KUBECTL_SSH_USER")
    /\ self = None

(* C5: in remote mode, in the list form and in the shell-string form, the
   port 22 gives no port flag, and any other non-empty port (022 included)
   gives -p followed by that port. *)
C5_PortFlag ==
    (self # None /\ FlagIsTruthy) =>
        /\ call.op = "wrap_command" =>
            IF HasPortFlag THEN result[2] = OPT_P /\ result[3] = CfgPort
            ELSE result[2] \in {OPT_I, OPT_O}
        /\ call.op = "wrap_shell_command" =>
            IF HasPortFlag
            THEN StartsWith(result, SSH \o SP \o OPT_P \o SP \o CfgPort \o SP)
            ELSE \/ StartsWith(result, SSH \o SP \o OPT_I \o SP)
                 \/ StartsWith(result, SSH \o SP \o OPT_O \o SP)

C5_Witness ==
    /\ self # None
    /\ FlagIsTruthy
    /\ CfgPort = <<"0", "2", "2">>
    /\ call.op = "wrap_shell_command"
    /\ StartsWith(result, <<"s", "s", "h", " ", "-", "p", " ", "0", "2", "2", " ">>)

(* C6: get_connection_info returns the keys enabled, user, host, port and
   key; when disabled the four settings are None whatever the environment
   holds; when enabled they are the resolved values and enabled is true. *)
C6_ConnectionInfo ==
    (self # None /\ call.op = "get_connection_info") =>
        /\ DOMAIN result = {"enabled", "user", "host", "port", "key"}
        /\ result.enabled <=> FlagIsTruthy
        /\ IF FlagIsTruthy
           THEN /\ result.user = PyStr(CfgUser)
                /\ result.host = PyStr(CfgHost)
                /\ result.port = PyStr(CfgPort)
                /\ result.key = PyStr(CfgKey)
           ELSE /\ result.user = None
                /\ result.host = None
                /\ result.port = None
                /\ result.key = None

C6_Witness ==
    /\ self # None
    /\ call.op = "get_connection_info"
    /\ ~FlagIsTruthy
    /\ CfgUser # <<>> /\ CfgHost # <<>> /\ HasKeyFlag /\ HasPortFlag
    /\ result.key = None
    /\ result.user = None

(* C7: in one thread, get_ssh_wrapper resolves the configuration from the
   current environment only when no instance is cached, and then caches and
   returns an object with the settings of the environment at that moment;
   otherwise it returns the cached object itself; a resolve that raises
   leaves nothing cached; a change of the environment leaves the cached
   object as it is; only get_ssh_wrapper and reset_ssh_wrapper change the
   handle, and reset_ssh_wrapper empties it. *)
C7_SingletonLifecycle ==
    [][ /\ env' # env => instance' = instance
        /\ instance' # instance => (IsGet \/ IsReset)
        /\ IsReset => instance' = None
        /\ (IsGet /\ instance # None) =>
               (instance' = instance /\ result' = instance /\ raised' = None)
        /\ (IsGet /\ instance = None /\ ResolveFails) =>
               (instance' = None /\ raised' # None /\ result' = None)
        /\ (IsGet /\ instance = None /\ ~ResolveFails) =>
               /\ instance' # None
               /\ result' = instance'
               /\ raised' = None
               /\ instance'.id = nextId
               /\ instance'.ssh_enabled = FlagIsTruthy
               /\ instance'.ssh_user = CfgUser
               /\ instance'.ssh_host = CfgHost
               /\ instance'.ssh_port = CfgPort
               /\ instance'.ssh_key = CfgKey
      ]_vars

(* a second instance, built after a reset, is returned by get_ssh_wrapper
   while the environment no longer holds the user it was built with *)
C7_Witness ==
    /\ instance # None
    /\ instance.id = 2
    /\ instance.ssh_enabled
    /\ instance.ssh_user = <<"a">>
    /\ CfgUser = <<"b">>
    /\ call.op = "get_ssh_wrapper"
    /\ result = instance

(* C8: for every enabled configuration and every string, splitting the
   result of wrap_shell_command into shell words gives the words that
   wrap_command builds for that configuration (ssh, the optional -p pair, the
   optional -i pair, the three -o pairs, user@host), followed by the string
   as one final word. *)
C8_ShellFormSplitsToListForm ==
    (self # None /\ FlagIsTruthy /\ call.op = "wrap_shell_command") =>
        LET list == WrapCommandOf(self, env, <<>>)
            head == SubSeq(list, 1, Len(list) - 1)
        IN  ShellSplit(result) = [ok |-> TRUE, words |-> Append(head, call.arg)]

(* C9 as stated: whenever a key path is supplied, the expanded path does not
   exist and construction succeeds, the key-not-found warning is logged,
   whatever the enable flag is. *)
C9_WarningForEveryFlag ==
    (call.op = "__init__" /\ raised = None /\ KeyMissing) =>
        KeyWarning \in Range(logged)

(* C9 amended: construction logs the key-not-found warning exactly when the
   enable flag is truthy, user and host are present and a non-empty key path
   does not exist after expansion; with the flag falsy the path is not
   checked and nothing is warned; a missing key file never makes
   construction fail. *)
C9_WarningOnlyWhenEnabled ==
    call.op = "__init__" =>
        /\ raised = None => ((KeyWarning \in Range(logged)) <=> (FlagIsTruthy /\ KeyMissing))
        /\ raised # None => (KeyWarning \notin Range(logged)
                             /\ FlagIsTruthy /\ (CfgUser = <<>> \/ CfgHost = <<>>))

C9_Witness ==
    /\ call.op = "__init__"
    /\ FlagIsTruthy
    /\ CfgKey = <<"~", "/", "k">>
    /\ <<"/", "h", "/", "k">> \notin fs
    /\ raised = None
    /\ self # None
    /\ logged = <<KeyWarning, LogRecord("info", "SSH mode enabled")>>

(* C10: with a valid environment that does not change, whatever the
   interleaving of get_ssh_wrapper and reset_ssh_wrapper calls of several
   threads, no get_ssh_wrapper call returns None. *)
C10_GetNeverReturnsNone == \A t \in Threads : ret[t] # None

====
